---- MODULE Spec2Model ----
(***************************************************************************)
(* Model of cmd/main.go of bazel-demo-app: main -> rootCmd.Execute ->      *)
(* runServer.  runServer prints a banner, runs demonstrateNewDependencies, *)
(* runs the legacy block (XML fetch, UUID, Snowflake, XPath), installs a   *)
(* gorilla/mux router with two routes and calls http.ListenAndServe.       *)
(*                                                                         *)
(* Calls into third-party libraries are modelled by their documented       *)
(* results; where a result depends on the environment (network, clock,     *)
(* port availability, client requests) it is a nondeterministic input.     *)
(***************************************************************************)
EXTENDS Integers, Sequences, FiniteSets, TLC

VARIABLES
    pc,          \* position of the main goroutine in main/runServer
    out,         \* lines written to the console / log, oldest first
    steps,       \* steps of demonstrateNewDependencies completed, oldest first
    viper,       \* viper's global key/value store (defaults layer)
    config,      \* the Config struct built in demonstrateNewDependencies
    tokenLen,    \* len(tokenString) after token.SignedString, -1 before
    wadl,        \* result of xmlquery.LoadURL
    uuidOK,      \* result of uuid.NewUUID: "unset", "ok", "err"
    sfOK,        \* result of snowflake.NewNode: "unset", "ok", "err"
    panic,       \* "none" or the cause of the panic that ended the process
    routes,      \* routes registered on the mux router, in order
    listener,    \* "none", "bound", "closed"
    err,         \* error returned by http.ListenAndServe, "unset" before
    exitCode,    \* -1 while the process runs, else its exit status
    conns        \* per connection: phase, request read, response written

vars == <<pc, out, steps, viper, config, tokenLen, wadl, uuidOK, sfOK, panic,
          routes, listener, err, exitCode, conns>>

(* ------------------------------ bounds -------------------------------- *)

\* Connections the server accepts in one run (each carries one request).
MaxConns == 2
\* Most repeated `name` query parameters in one request.
MaxNames == 2
\* Most minutes the clock may advance between cache Set and cache Get.
MaxElapsed == 6

(* ------------------------- program constants -------------------------- *)

DefaultPort == 5000
MinPort == 1000
MaxPort == 65535
CacheExpiration == 5
TokenPrefixLen == 20
SnowflakeNode == 1
ExitFailure == 1

\* Exit status of a Go process that dies of an unrecovered panic.
ExitPanic == 1 + 1
\* snowflake: NodeBits = 10, so node ids run from 0 to 2^10 - 1.
NodeMax == 2 ^ 10 - 1
\* Length of a compact HS256 JWT: base64url header (36) "." payload (48,
\* for {"exp":<10 digits>,"user":"demo-user"}) "." signature (43).
SignedTokenLen == 36 + 1 + 48 + 1 + 43

Conns == 1 .. MaxConns
Names == {"", "Ada", "Grace"}
Methods == {"GET", "POST"}
Paths == {"/greet", "/greet-many", "/unknown"}

\* The order of the steps in demonstrateNewDependencies.
DemoOrder ==
    <<"godotenv", "viper", "yaml", "validator", "cache", "jwt", "assert",
      "protobuf", "color", "cobra">>

(* ------------------------------ helpers ------------------------------- *)

Last(s) == s[Len(s)]

Contains(s, x) == \E i \in 1 .. Len(s) : s[i] = x

\* All sequences over S of length at most n.
SeqsUpTo(S, n) == UNION {[1 .. k -> S] : k \in 0 .. n}

NoReq == [method |-> "", path |-> "", names |-> <<>>]
NoResp == [status |-> 0, body |-> "", handler |-> "none"]
IdleConn == [phase |-> "idle", req |-> NoReq, resp |-> NoResp]

\* Every request within the bounds: method, path, repeated name parameters.
Requests == [method : Methods, path : Paths, names : SeqsUpTo(Names, MaxNames)]

Req(m, p, n) == [method |-> m, path |-> p, names |-> n]

\* The requests clients send while the process runs.
ClientRequests ==
    { Req("GET", "/greet", <<>>),
      Req("GET", "/greet", <<"">>),
      Req("GET", "/greet", <<"Ada">>),
      Req("GET", "/greet", <<"Grace">>),
      Req("GET", "/greet-many", <<>>),
      Req("GET", "/greet-many", <<"Grace", "Ada">>),
      Req("GET", "/greet-many", <<"Ada", "Ada">>),
      Req("GET", "/unknown", <<"Ada">>),
      Req("POST", "/greet", <<"Ada">>),
      Req("POST", "/greet-many", <<"Grace">>) }

(* --------------------- library calls, as operators -------------------- *)

\* viper.Get* on a key that was never set returns the zero value.
ViperZero == [app_name |-> "", port |-> 0, debug |-> FALSE]

\* viper.SetDefault for the three keys.
ViperDefaults == [app_name |-> "bazel-demo-app", port |-> DefaultPort, debug |-> TRUE]

NoConfig == [AppName |-> "", Port |-> 0, Debug |-> FALSE]

\* Config{AppName: viper.GetString(..), Port: viper.GetInt(..), Debug: ..}
ConfigFrom(v) == [AppName |-> v.app_name, Port |-> v.port, Debug |-> v.debug]

\* validate.Struct(config) = nil: the tags of Config.
\*   AppName validate:"required"; Port validate:"required,min=1000,max=65535"
Validate(c) ==
    /\ c.AppName # ""
    /\ c.Port # 0
    /\ c.Port >= MinPort
    /\ c.Port <= MaxPort

\* c.Get after c.Set(k, v, DefaultExpiration): go-cache reports a miss once
\* time.Now() is after the item's expiration.
CacheFound(elapsed) == ~(elapsed > CacheExpiration)

\* tokenString[:20] is in range only when the string has 20 bytes.
SliceInRange(len, n) == n <= len

\* snowflake.NewNode(node) fails for a node id outside 0 .. nodeMax.
NewNodeFails(node) == node < 0 \/ node > NodeMax

(* ------------------------------ Router -------------------------------- *)

\* Variant: both routes registered without .Methods("GET").
RoutesWithoutMethods ==
    << [path |-> "/greet", methods |-> Methods, handler |-> "Greet"],
       [path |-> "/greet-many", methods |-> Methods, handler |-> "GreetMany"] >>

\* Variant: handlers.Greet registered for both paths.
RoutesBothGreet ==
    << [path |-> "/greet", methods |-> {"GET"}, handler |-> "Greet"],
       [path |-> "/greet-many", methods |-> {"GET"}, handler |-> "Greet"] >>

\* router.HandleFunc("/greet", handlers.Greet).Methods("GET")
\* router.HandleFunc("/greet-many", handlers.GreetMany).Methods("GET")
RegisteredRoutes ==
    << [path |-> "/greet", methods |-> {"GET"}, handler |-> "Greet"],
       [path |-> "/greet-many", methods |-> {"GET"}, handler |-> "GreetMany"] >>

\* mux: a route matches when its path matcher and its method matcher match.
RouteMatches(r, req) == r.path = req.path /\ req.method \in r.methods

\* mux: the path matched and the method did not (ErrMethodMismatch).
MethodMismatch(r, req) == r.path = req.path /\ req.method \notin r.methods

\* mux Router.Match: the first route, in registration order, that matches;
\* 0 when none does.
MatchIndex(rs, req) ==
    IF \E i \in 1 .. Len(rs) : RouteMatches(rs[i], req)
    THEN CHOOSE i \in 1 .. Len(rs) :
            /\ RouteMatches(rs[i], req)
            /\ \A j \in 1 .. (i - 1) : ~RouteMatches(rs[j], req)
    ELSE 0

(* -------------------- GreetingService (handlers) ---------------------- *)

Greeting(name) == "Hello, " \o name \o "!"

\* Greet: the single optional name parameter, "World" if absent or empty.
GreetName(req) ==
    IF Len(req.names) = 0 \/ req.names[1] = "" THEN "World" ELSE req.names[1]

Greet(req) == [status |-> 200, body |-> Greeting(GreetName(req)), handler |-> "Greet"]

\* The greeting lines for names, in order, joined by newline.
RECURSIVE GreetLines(_)
GreetLines(names) ==
    IF Len(names) = 1
    THEN Greeting(names[1])
    ELSE Greeting(Head(names)) \o "\n" \o GreetLines(Tail(names))

GreetMany(req) ==
    [status |-> 200,
     body |-> IF Len(req.names) = 0 THEN Greeting("World") ELSE GreetLines(req.names),
     handler |-> "GreetMany"]

\* mux Router.ServeHTTP: dispatch to the matched route's handler; 405 when
\* only the method failed to match, 404 otherwise.
ServeHTTP(rs, req) ==
    LET i == MatchIndex(rs, req) IN
    IF i # 0
    THEN IF rs[i].handler = "Greet" THEN Greet(req) ELSE GreetMany(req)
    ELSE IF \E j \in 1 .. Len(rs) : MethodMismatch(rs[j], req)
         THEN [status |-> 405, body |-> "", handler |-> "none"]
         ELSE [status |-> 404, body |-> "404 page not found\n", handler |-> "none"]

(* ------------------------------ state --------------------------------- *)

demoVars == <<viper, config, tokenLen>>
legacyVars == <<wadl, uuidOK, sfOK>>
serverVars == <<routes, listener, err, conns>>

Init ==
    /\ pc = "main"
    /\ out = <<>>
    /\ steps = <<>>
    /\ viper = ViperZero
    /\ config = NoConfig
    /\ tokenLen = -1
    /\ wadl = "unset"
    /\ uuidOK = "unset"
    /\ sfOK = "unset"
    /\ panic = "none"
    /\ routes = <<>>
    /\ listener = "none"
    /\ err = "unset"
    /\ exitCode = -1
    /\ conns = [c \in Conns |-> IdleConn]

\* An unrecovered panic: the runtime prints the cause and the process dies.
Panics(cause) ==
    /\ pc' = "exited"
    /\ panic' = cause
    /\ exitCode' = ExitPanic

(* ------------------------------- main --------------------------------- *)

\* main: rootCmd.Execute().  cobra runs Run (runServer) unless the command
\* line asks for help or fails to parse; a parse error comes back as err.
Main ==
    /\ pc = "main"
    /\ \E args \in {"run", "help", "badflag"} :
         \/ /\ args = "run"
            /\ pc' = "runServer"
            /\ UNCHANGED <<out, exitCode>>
         \/ /\ args = "help"
            /\ out' = Append(out, "usage")
            /\ pc' = "exited"
            /\ exitCode' = 0
         \/ /\ args = "badflag"
            /\ out' = Append(out, "unknown flag")
            /\ pc' = "exited"
            /\ exitCode' = ExitFailure
    /\ UNCHANGED <<steps, demoVars, legacyVars, panic, serverVars>>

\* Variant: runServer goes to the legacy block without the demo.
RunServerSkipsDemo ==
    /\ pc = "runServer"
    /\ out' = out \o <<"Hello world", "=== Demonstrating New Dependencies ===">>
    /\ pc' = "loadURL"
    /\ UNCHANGED <<steps, demoVars, legacyVars, panic, serverVars, exitCode>>

\* runServer: the banner, up to the call of demonstrateNewDependencies.
RunServerStart ==
    /\ pc = "runServer"
    /\ out' = out \o <<"Hello world", "=== Demonstrating New Dependencies ===">>
    /\ pc' = "godotenv"
    /\ UNCHANGED <<steps, demoVars, legacyVars, panic, serverVars, exitCode>>

(* --------------------- demonstrateNewDependencies --------------------- *)

\* 1. godotenv.Load(): the error of a missing .env file is discarded.
DemoGodotenv ==
    /\ pc = "godotenv"
    /\ \E envFileExists \in BOOLEAN :
         out' = Append(out, "godotenv: Environment loaded")
    /\ steps' = Append(steps, "godotenv")
    /\ pc' = "viper"
    /\ UNCHANGED <<demoVars, legacyVars, panic, serverVars, exitCode>>

\* 2. viper.SetDefault x3.
DemoViper ==
    /\ pc = "viper"
    /\ viper' = ViperDefaults
    /\ out' = Append(out, "viper: Configuration set with defaults")
    /\ steps' = Append(steps, "viper")
    /\ pc' = "yaml"
    /\ UNCHANGED <<config, tokenLen, legacyVars, panic, serverVars, exitCode>>

\* 3. build Config from viper, yaml.Marshal (error discarded).
DemoYaml ==
    /\ pc = "yaml"
    /\ config' = ConfigFrom(viper)
    /\ out' = Append(out, "yaml.v3: Config marshaled to YAML")
    /\ steps' = Append(steps, "yaml")
    /\ pc' = "validator"
    /\ UNCHANGED <<viper, tokenLen, legacyVars, panic, serverVars, exitCode>>

\* 4. validate.Struct(config): a line only when err == nil.
DemoValidator ==
    /\ pc = "validator"
    /\ out' = IF Validate(config)
              THEN Append(out, "validator: Config validation passed")
              ELSE out
    /\ steps' = Append(steps, "validator")
    /\ pc' = "cache"
    /\ UNCHANGED <<demoVars, legacyVars, panic, serverVars, exitCode>>

\* 5. cache.New(5m, 10m); c.Set; c.Get: a line only when found.
DemoCache ==
    /\ pc = "cache"
    /\ \E elapsed \in 0 .. MaxElapsed :
         out' = IF CacheFound(elapsed)
                THEN Append(out, "go-cache: Retrieved value from cache")
                ELSE out
    /\ steps' = Append(steps, "cache")
    /\ pc' = "jwt"
    /\ UNCHANGED <<demoVars, legacyVars, panic, serverVars, exitCode>>

\* 6. token.SignedString (error discarded), then tokenString[:20].  On a
\* signing error the string is empty and the slice expression panics.
DemoJwt ==
    /\ pc = "jwt"
    /\ \E signed \in BOOLEAN :
         /\ tokenLen' = IF signed THEN SignedTokenLen ELSE 0
         /\ IF SliceInRange(tokenLen', TokenPrefixLen)
            THEN /\ out' = Append(out, "jwt-go: Generated JWT token (truncated)")
                 /\ steps' = Append(steps, "jwt")
                 /\ pc' = "assert"
                 /\ UNCHANGED <<panic, exitCode>>
            ELSE /\ Panics("slice bounds out of range")
                 /\ UNCHANGED <<out, steps>>
    /\ UNCHANGED <<viper, config, legacyVars, serverVars>>

\* 7. assert.True(nil, true, ..): true, so the nil TestingT is never used.
DemoAssert ==
    /\ pc = "assert"
    /\ out' = Append(out, "testify/assert: Assertion passed")
    /\ steps' = Append(steps, "assert")
    /\ pc' = "protobuf"
    /\ UNCHANGED <<demoVars, legacyVars, panic, serverVars, exitCode>>

\* 8. timestamppb.Now(), proto.Size.
DemoProtobuf ==
    /\ pc = "protobuf"
    /\ out' = Append(out, "protobuf: Created protobuf timestamp")
    /\ steps' = Append(steps, "protobuf")
    /\ pc' = "color"
    /\ UNCHANGED <<demoVars, legacyVars, panic, serverVars, exitCode>>

\* 10, 11. the closing color and cobra lines; the function returns.
DemoColorCobra ==
    /\ pc = "color"
    /\ out' = out \o <<"color: All dependencies demonstrated successfully!",
                       "cobra: CLI framework initialized">>
    /\ steps' = steps \o <<"color", "cobra">>
    /\ pc' = "demoReturned"
    /\ UNCHANGED <<demoVars, legacyVars, panic, serverVars, exitCode>>

\* runServer after demonstrateNewDependencies returns: the closing rule.
DemoReturned ==
    /\ pc = "demoReturned"
    /\ out' = Append(out, "=====================================")
    /\ pc' = "loadURL"
    /\ UNCHANGED <<steps, demoVars, legacyVars, panic, serverVars, exitCode>>

(* --------------------------- legacy block ------------------------------ *)

\* wadl, err := xmlquery.LoadURL(..); if err != nil { panic(err) }
\* The fetch fails, or yields a document with or without the attribute
\* that the XPath query below selects.
LegacyLoadURL ==
    /\ pc = "loadURL"
    /\ \E res \in {"err", "doc", "docWithoutAttr"} :
         /\ wadl' = res
         /\ IF res = "err"
            THEN Panics("LoadURL")
            ELSE /\ pc' = "netrc"
                 /\ UNCHANGED <<panic, exitCode>>
    /\ UNCHANGED <<out, steps, demoVars, uuidOK, sfOK, serverVars>>

\* fmt.Println(netrc); logrus.Info("Hello world")
LegacyNetrc ==
    /\ pc = "netrc"
    /\ out' = out \o <<"{test test test}", "level=info msg=Hello world">>
    /\ pc' = "newUUID"
    /\ UNCHANGED <<steps, demoVars, legacyVars, panic, serverVars, exitCode>>

\* uuid, err := uuid.NewUUID(); if err != nil { panic(err) }
LegacyUUID ==
    /\ pc = "newUUID"
    /\ \E ok \in BOOLEAN :
         IF ok
         THEN /\ uuidOK' = "ok"
              /\ out' = Append(out, "uuid")
              /\ pc' = "newNode"
              /\ UNCHANGED <<panic, exitCode>>
         ELSE /\ uuidOK' = "err"
              /\ Panics("NewUUID")
              /\ UNCHANGED out
    /\ UNCHANGED <<steps, demoVars, wadl, sfOK, serverVars>>

\* sf, err := snowflake.NewNode(1); if err != nil { panic(err) }
LegacySnowflake ==
    /\ pc = "newNode"
    /\ IF NewNodeFails(SnowflakeNode)
       THEN /\ sfOK' = "err"
            /\ Panics("NewNode")
            /\ UNCHANGED out
       ELSE /\ sfOK' = "ok"
            /\ out' = Append(out, "snowflake id")
            /\ pc' = "findOne"
            /\ UNCHANGED <<panic, exitCode>>
    /\ UNCHANGED <<steps, demoVars, wadl, uuidOK, serverVars>>

\* Variant: a nil result of FindOne is printed instead of dereferenced.
LegacyFindOneIgnoresNil ==
    /\ pc = "findOne"
    /\ out' = Append(out, "xmlns")
    /\ pc' = "router"
    /\ UNCHANGED <<steps, demoVars, legacyVars, panic, serverVars, exitCode>>

\* attr := xmlquery.FindOne(wadl, "//application/@xmlns")
\* fmt.Println(attr.InnerText())     -- attr is nil when nothing matches
LegacyFindOne ==
    /\ pc = "findOne"
    /\ IF wadl = "doc"
       THEN /\ out' = Append(out, "xmlns")
            /\ pc' = "router"
            /\ UNCHANGED <<panic, exitCode>>
       ELSE /\ Panics("nil pointer dereference")
            /\ UNCHANGED out
    /\ UNCHANGED <<steps, demoVars, legacyVars, serverVars>>

(* --------------------------- ServerProcess ----------------------------- *)

\* router := mux.NewRouter(); the two HandleFunc(..).Methods("GET") calls.
InstallRouter ==
    /\ pc = "router"
    /\ routes' = RegisteredRoutes
    /\ pc' = "logStart"
    /\ UNCHANGED <<out, steps, demoVars, legacyVars, panic, listener, err, conns, exitCode>>

\* address := ":5000"; log.Printf("server started at port %v\n", address)
LogStarted ==
    /\ pc = "logStart"
    /\ out' = Append(out, "server started at port :5000")
    /\ pc' = "listen"
    /\ UNCHANGED <<steps, demoVars, legacyVars, panic, serverVars, exitCode>>

\* Variant: the process goes on to serve although the bind failed.
ListenAndServeIgnoresBindError ==
    /\ pc = "listen"
    /\ \E bound \in BOOLEAN :
         IF bound
         THEN /\ listener' = "bound"
              /\ pc' = "serving"
              /\ UNCHANGED err
         ELSE /\ err' = "EADDRINUSE"
              /\ pc' = "serving"
              /\ UNCHANGED listener
    /\ UNCHANGED <<out, steps, demoVars, legacyVars, panic, routes, conns, exitCode>>

\* err = http.ListenAndServe(address, router): net.Listen, then Serve.  A
\* failed bind makes ListenAndServe return at once with the bind error.
ListenAndServe ==
    /\ pc = "listen"
    /\ \E bound \in BOOLEAN :
         IF bound
         THEN /\ listener' = "bound"
              /\ pc' = "serving"
              /\ UNCHANGED err
         ELSE /\ err' = "EADDRINUSE"
              /\ pc' = "returned"
              /\ UNCHANGED listener
    /\ UNCHANGED <<out, steps, demoVars, legacyVars, panic, routes, conns, exitCode>>

\* Serve: the accept loop takes a connection and starts a goroutine for it,
\* which reads one request from a client.
Accept(c) ==
    /\ pc = "serving"
    /\ listener = "bound"
    /\ conns[c].phase = "idle"
    /\ \E req \in ClientRequests :
         conns' = [conns EXCEPT ![c] = [phase |-> "pending", req |-> req, resp |-> NoResp]]
    /\ UNCHANGED <<pc, out, steps, demoVars, legacyVars, panic, routes, listener, err, exitCode>>

\* Variant: the request is kept in a variable the goroutines share, so a
\* response may be built from the request of another connection.
RespondFromSharedRequest(c) ==
    /\ pc \in {"serving", "returned"}
    /\ conns[c].phase = "pending"
    /\ \E d \in Conns :
         /\ conns[d].phase # "idle"
         /\ conns' = [conns EXCEPT ![c].phase = "done",
                                   ![c].resp = ServeHTTP(routes, conns[d].req)]
    /\ UNCHANGED <<pc, out, steps, demoVars, legacyVars, panic, routes, listener, err, exitCode>>

\* The connection's goroutine hands its request to the router and writes
\* the response.  Goroutines run until the process exits.
Respond(c) ==
    /\ pc \in {"serving", "returned"}
    /\ conns[c].phase = "pending"
    /\ conns' = [conns EXCEPT ![c].phase = "done",
                              ![c].resp = ServeHTTP(routes, conns[c].req)]
    /\ UNCHANGED <<pc, out, steps, demoVars, legacyVars, panic, routes, listener, err, exitCode>>

\* Serve returns: the server was closed (http.ErrServerClosed) or the
\* accept loop hit a permanent error.
ServeReturns ==
    /\ pc = "serving"
    /\ listener = "bound"
    /\ \E e \in {"ErrServerClosed", "accept error"} : err' = e
    /\ listener' = "closed"
    /\ pc' = "returned"
    /\ UNCHANGED <<out, steps, demoVars, legacyVars, panic, routes, conns, exitCode>>

\* Variant: every error is taken for the server having been closed.
HandleErrAlwaysClosed ==
    /\ pc = "returned"
    /\ out' = Append(out, "server closed")
    /\ exitCode' = 0
    /\ pc' = "exited"
    /\ UNCHANGED <<steps, demoVars, legacyVars, panic, serverVars>>

\* if errors.Is(err, http.ErrServerClosed) { log closed }
\* else if err != nil { log error; os.Exit(1) }
\* then runServer and main return: exit status 0.  (ListenAndServe never
\* returns nil, so the last branch is not taken.)
HandleErr ==
    /\ pc = "returned"
    /\ IF err = "ErrServerClosed"
       THEN /\ out' = Append(out, "server closed")
            /\ exitCode' = 0
       ELSE IF err # "nil"
            THEN /\ out' = Append(out, "error starting server")
                 /\ exitCode' = ExitFailure
            ELSE /\ UNCHANGED out
                 /\ exitCode' = 0
    /\ pc' = "exited"
    /\ UNCHANGED <<steps, demoVars, legacyVars, panic, serverVars>>

Next ==
    \/ Main
    \/ RunServerStart
    \/ DemoGodotenv
    \/ DemoViper
    \/ DemoYaml
    \/ DemoValidator
    \/ DemoCache
    \/ DemoJwt
    \/ DemoAssert
    \/ DemoProtobuf
    \/ DemoColorCobra
    \/ DemoReturned
    \/ LegacyLoadURL
    \/ LegacyNetrc
    \/ LegacyUUID
    \/ LegacySnowflake
    \/ LegacyFindOne
    \/ InstallRouter
    \/ LogStarted
    \/ ListenAndServe
    \/ \E c \in Conns : Accept(c)
    \/ \E c \in Conns : Respond(c)
    \/ ServeReturns
    \/ HandleErr

Spec == Init /\ [][Next]_vars

(* ------------- the router and the handlers on every request ------------ *)

\* The console after a start in which every step succeeded.
ServingOut ==
    <<"Hello world", "=== Demonstrating New Dependencies ===",
      "godotenv: Environment loaded",
      "viper: Configuration set with defaults",
      "yaml.v3: Config marshaled to YAML",
      "validator: Config validation passed",
      "go-cache: Retrieved value from cache",
      "jwt-go: Generated JWT token (truncated)",
      "testify/assert: Assertion passed",
      "protobuf: Created protobuf timestamp",
      "color: All dependencies demonstrated successfully!",
      "cobra: CLI framework initialized",
      "=====================================",
      "{test test test}", "level=info msg=Hello world",
      "uuid", "snowflake id", "xmlns",
      "server started at port :5000">>

\* The process serving, its first connection holding a request just read:
\* any request within the bounds.
InitHandlers ==
    /\ pc = "serving"
    /\ out = ServingOut
    /\ steps = DemoOrder
    /\ viper = ViperDefaults
    /\ config = ConfigFrom(ViperDefaults)
    /\ tokenLen = SignedTokenLen
    /\ wadl = "doc"
    /\ uuidOK = "ok"
    /\ sfOK = "ok"
    /\ panic = "none"
    /\ routes = RegisteredRoutes
    /\ listener = "bound"
    /\ err = "unset"
    /\ exitCode = -1
    /\ \E req \in Requests :
         conns = [c \in Conns |->
                    IF c = 1
                    THEN [phase |-> "pending", req |-> req, resp |-> NoResp]
                    ELSE IdleConn]

NextHandlers == \E c \in Conns : Respond(c)

SpecHandlers == InitHandlers /\ [][NextHandlers]_vars

\* The serving state that SpecHandlers starts from is a state of Spec.
ServingStateReached ==
    /\ pc = "serving"
    /\ out = ServingOut
    /\ steps = DemoOrder
    /\ viper = ViperDefaults
    /\ config = ConfigFrom(ViperDefaults)
    /\ tokenLen = SignedTokenLen
    /\ wadl = "doc" /\ uuidOK = "ok" /\ sfOK = "ok" /\ panic = "none"
    /\ routes = RegisteredRoutes
    /\ listener = "bound" /\ err = "unset" /\ exitCode = -1
    /\ conns[1].phase = "pending"
    /\ \A c \in Conns \ {1} : conns[c] = IdleConn

(* ------------------------- ServerProcess states ------------------------ *)

Binding == pc = "listen"
Serving == pc = "serving"
Closed == pc = "exited" /\ err = "ErrServerClosed"
Failed == pc = "exited" /\ err \notin {"unset", "nil", "ErrServerClosed"}

StartedLine == "server started at port :5000"

Done(c) == conns[c].phase = "done"

(* ------------------------------ claims --------------------------------- *)

\* C1: once ListenAndServe has returned and the process has ended, the
\* outcome follows the error alone: ErrServerClosed ends in Closed with the
\* closed message as the last line and exit status 0; any other error ends
\* in Failed with the error line last and exit status 1.
C1_ExitDecidedByErr ==
    /\ Closed => exitCode = 0 /\ Last(out) = "server closed"
    /\ Failed => exitCode = ExitFailure /\ Last(out) = "error starting server"
    /\ (pc = "exited" /\ err # "unset") => (Closed \/ Failed)

C1_Witness == Closed /\ exitCode = 0 /\ Last(out) = "server closed"

\* C2: once the bind has failed the listener is never established, no
\* connection is ever accepted or dispatched, the process is on its way
\* out, and it exits with a non-zero status.
C2_BindFailureIsFailed ==
    err = "EADDRINUSE" =>
        /\ listener = "none"
        /\ ~Serving
        /\ pc \in {"returned", "exited"}
        /\ \A c \in Conns : conns[c] = IdleConn
        /\ pc = "exited" => Failed /\ exitCode # 0

C2_Witness == err = "EADDRINUSE" /\ Failed /\ exitCode = ExitFailure /\ listener = "none"

\* C3 (as claimed): whenever the startup message is on the log, the
\* listener has been bound.
C3_StartedOnlyAfterBind ==
    Contains(out, StartedLine) => listener # "none"

\* C4 (as claimed): no failure of a demo step aborts startup: a process
\* that died of a panic had completed demonstrateNewDependencies.
C4_DemoNeverAborts ==
    panic # "none" => steps = DemoOrder

\* The line a demo step prints when it succeeds.
SuccessLine(step) ==
    CASE step = "godotenv" -> "godotenv: Environment loaded"
      [] step = "viper" -> "viper: Configuration set with defaults"
      [] step = "yaml" -> "yaml.v3: Config marshaled to YAML"
      [] step = "validator" -> "validator: Config validation passed"
      [] step = "cache" -> "go-cache: Retrieved value from cache"
      [] step = "jwt" -> "jwt-go: Generated JWT token (truncated)"
      [] step = "assert" -> "testify/assert: Assertion passed"
      [] step = "protobuf" -> "protobuf: Created protobuf timestamp"
      [] step = "color" -> "color: All dependencies demonstrated successfully!"
      [] step = "cobra" -> "cobra: CLI framework initialized"

\* C5 (as claimed): every demo step that has completed has put a line of
\* its own on the console, a success line or a failure line.
C5_EveryStepEmitsALine ==
    \A i \in 1 .. Len(steps) :
        \E j \in 1 .. Len(out) :
            \/ out[j] = SuccessLine(steps[i])
            \/ out[j] = steps[i] \o ": failed"

\* C6: whenever ListenAndServe has been called (the process is binding,
\* serving, or past it, or any connection has been touched), every demo
\* step has run exactly once, in the order of the source, and none is left.
C6_DemoBeforeListen ==
    (\/ Binding \/ Serving \/ pc = "returned"
     \/ listener # "none" \/ err # "unset"
     \/ \E c \in Conns : conns[c] # IdleConn)
        => steps = DemoOrder

C6_Witness == Serving /\ steps = DemoOrder /\ \E c \in Conns : Done(c)

\* C7: the router has exactly the two GET routes.  For every answered
\* request: handlers.Greet ran exactly when it was GET /greet,
\* handlers.GreetMany exactly when it was GET /greet-many; any other path
\* got 404 from neither handler; another method on either path reached
\* neither handler.
C7_TwoRoutesOnly ==
    /\ Len(routes) = 2
    /\ \A c \in Conns :
         Done(c) =>
            LET req == conns[c].req
                resp == conns[c].resp
            IN /\ resp.handler = "Greet" <=> (req.method = "GET" /\ req.path = "/greet")
               /\ resp.handler = "GreetMany" <=>
                     (req.method = "GET" /\ req.path = "/greet-many")
               /\ req.path \notin {"/greet", "/greet-many"} =>
                     resp.status = 404 /\ resp.handler = "none"
               /\ (req.path \in {"/greet", "/greet-many"} /\ req.method # "GET") =>
                     resp.handler = "none" /\ resp.status # 200

C7_Witness ==
    \E c \in Conns :
        /\ Done(c)
        /\ conns[c].req.method = "POST"
        /\ conns[c].req.path = "/greet-many"
        /\ conns[c].resp.handler = "none"

\* The lines "Hello, n1!" .. "Hello, nk!" joined by newline, built from the
\* first line to the last.
ExpectedLines(names) ==
    LET acc[i \in 1 .. Len(names)] ==
            IF i = 1
            THEN "Hello, " \o names[1] \o "!"
            ELSE acc[i - 1] \o "\n" \o "Hello, " \o names[i] \o "!"
    IN acc[Len(names)]

\* C8: every answered GET /greet-many with names n1 .. nk has status 200
\* and the body "Hello, n1!" .. "Hello, nk!" joined by newline in the order
\* given, duplicates kept; with no name the body is "Hello, World!".
C8_GreetManyInOrder ==
    \A c \in Conns :
        (Done(c) /\ conns[c].req.method = "GET" /\ conns[c].req.path = "/greet-many") =>
            LET names == conns[c].req.names
                resp == conns[c].resp
            IN /\ resp.status = 200
               /\ resp.body = IF Len(names) = 0
                              THEN "Hello, World!"
                              ELSE ExpectedLines(names)

C8_Witness ==
    \E c \in Conns :
        /\ Done(c)
        /\ conns[c].req = Req("GET", "/greet-many", <<"Grace", "Ada">>)
        /\ conns[c].resp.status = 200
        /\ conns[c].resp.body = "Hello, Grace!\nHello, Ada!"

\* C9: every answered GET /greet has status 200 and the body built from
\* the name of its own request ("World" when the name is absent or empty),
\* whatever the other connections carry and however they interleave.
C9_GreetOwnName ==
    \A c \in Conns :
        (Done(c) /\ conns[c].req.method = "GET" /\ conns[c].req.path = "/greet") =>
            LET names == conns[c].req.names
                resp == conns[c].resp
            IN /\ resp.status = 200
               /\ names = <<>> => resp.body = "Hello, World!"
               /\ (names # <<>> /\ names[1] = "") => resp.body = "Hello, World!"
               /\ (names # <<>> /\ names[1] # "") =>
                     resp.body = "Hello, " \o names[1] \o "!"

\* Two connections in flight with different names, one answered while the
\* other is still waiting.
C9_Witness ==
    \E c, d \in Conns :
        /\ c # d
        /\ Done(c)
        /\ conns[c].req = Req("GET", "/greet", <<"Ada">>)
        /\ conns[c].resp.body = "Hello, Ada!"
        /\ conns[d].phase = "pending"
        /\ conns[d].req = Req("GET", "/greet", <<"Grace">>)

\* C10: the legacy block gates the server.  The router exists, or the
\* listener is touched, only after the fetch, the UUID, the Snowflake node
\* and the attribute lookup all succeeded, in that order; a failed fetch,
\* UUID or node panics, a missing attribute is a nil dereference, and a
\* process that panicked registered no route and never bound or served.
C10_LegacyGatesServer ==
    /\ (\/ routes # <<>> \/ listener # "none" \/ err # "unset"
        \/ pc \in {"router", "logStart", "listen", "serving", "returned"}
        \/ \E c \in Conns : conns[c] # IdleConn)
          => (wadl = "doc" /\ uuidOK = "ok" /\ sfOK = "ok")
    /\ uuidOK # "unset" => wadl \in {"doc", "docWithoutAttr"}
    /\ sfOK # "unset" => uuidOK = "ok"
    /\ wadl = "err" => panic = "LoadURL"
    /\ uuidOK = "err" => panic = "NewUUID"
    /\ sfOK = "err" => panic = "NewNode"
    /\ (wadl = "docWithoutAttr" /\ pc = "exited") =>
          panic \in {"NewUUID", "NewNode", "nil pointer dereference"}
    /\ panic # "none" =>
          /\ pc = "exited"
          /\ exitCode = ExitPanic
          /\ routes = <<>>
          /\ listener = "none"
          /\ err = "unset"
          /\ \A c \in Conns : conns[c] = IdleConn

C10_Witness ==
    /\ panic = "nil pointer dereference"
    /\ wadl = "docWithoutAttr"
    /\ uuidOK = "ok"
    /\ sfOK = "ok"
    /\ routes = <<>>
    /\ listener = "none"

====
